---- MODULE Spec2Model ----
(***************************************************************************)
(* Model of the imgmod pixel-buffer filter engine (src/src/image.rs) and   *)
(* of the Image component's message handler that drives it.                *)
(*                                                                         *)
(* Number representations                                                  *)
(*   u8     : an integer in 0..255.                                        *)
(*   usize  : its two's-complement residue (the signed integer congruent   *)
(*            to the value modulo 2^N and of least magnitude), so that     *)
(*            wrapping arithmetic is ordinary arithmetic on residues and   *)
(*            an unsigned comparison is UsizeGe below.                     *)
(*   f32    : a pair <<m, e>> standing for m * 2^e, either <<0, 0>> or     *)
(*            normalised with 2^23 <= |m| < 2^24; every operation rounds   *)
(*            to nearest, ties to even, as IEEE-754 binary32 does.         *)
(***************************************************************************)
EXTENDS Integers, Sequences, FiniteSets

\* ------------------------------------------------------------------ f32

Abs(n) == IF n < 0 THEN -n ELSE n

Sgn(n) == IF n < 0 THEN -1 ELSE 1

Min(a, b) == IF a <= b THEN a ELSE b

RECURSIVE BitLen(_)
BitLen(n) == IF n = 0 THEN 0 ELSE 1 + BitLen(n \div 2)

\* The binary32 nearest to M * 2^e (|M| < 2^30), ties to even.
F32Round(M, e) ==
  IF M = 0 THEN <<0, 0>>
  ELSE LET a == Abs(M)
           n == BitLen(a)
       IN IF n <= 24
          THEN <<Sgn(M) * a * 2^(24 - n), e - (24 - n)>>
          ELSE LET s    == n - 24
                   q    == a \div 2^s
                   r    == a % 2^s
                   half == 2^(s - 1)
                   up   == (r > half) \/ (r = half /\ q % 2 = 1)
                   q1   == IF up THEN q + 1 ELSE q
               IN IF q1 = 2^24 THEN <<Sgn(M) * 2^23, e + s + 1>>
                               ELSE <<Sgn(M) * q1, e + s>>

\* `n as f32` for an integer of magnitude below 2^24 (exact).
F32FromInt(n) == F32Round(n, 0)

F32Neg(a) == <<-a[1], a[2]>>

\* a + b: the smaller operand is aligned to the larger with three guard bits,
\* the bits shifted out folded into a sticky bit.
F32Add(a, b) ==
  IF a[1] = 0 THEN b
  ELSE IF b[1] = 0 THEN a
  ELSE LET big   == IF a[2] >= b[2] THEN a ELSE b
           small == IF a[2] >= b[2] THEN b ELSE a
           d     == big[2] - small[2]
           S8    == Abs(small[1]) * 8
           sh    == IF d > 27 THEN 1
                    ELSE (S8 \div 2^d) + (IF S8 % 2^d # 0 /\ (S8 \div 2^d) % 2 = 0
                                          THEN 1 ELSE 0)
       IN F32Round(big[1] * 8 + Sgn(small[1]) * sh, big[2] - 3)

F32Sub(a, b) == F32Add(a, F32Neg(b))

\* a * b: the 48-bit product of the mantissas in 12-bit limbs.
F32Mul(a, b) ==
  IF a[1] = 0 \/ b[1] = 0 THEN <<0, 0>>
  ELSE LET ma   == Abs(a[1])
           mb   == Abs(b[1])
           a1   == ma \div 4096
           a0   == ma % 4096
           b1   == mb \div 4096
           b0   == mb % 4096
           low  == a0 * b0
           mid  == a1 * b0 + a0 * b1 + (low \div 4096)
           H    == a1 * b1 + (mid \div 4096)
           Lo   == (mid % 4096) * 4096 + (low % 4096)
           sg   == Sgn(a[1]) * Sgn(b[1])
           \* H * 2^24 + Lo is the product; keep H, two more bits and a sticky bit
           M    == H * 8 + (Lo \div 2^21)
           st   == IF Lo % 2^21 # 0 /\ (Lo \div 2^21) % 2 = 0 THEN 1 ELSE 0
       IN F32Round(sg * (M + st), a[2] + b[2] + 21)

RECURSIVE DivBits(_, _, _, _)
DivBits(r, mb, q, k) ==
  IF k = 0 THEN <<q, r>>
  ELSE LET r2 == 2 * r
       IN IF r2 >= mb THEN DivBits(r2 - mb, mb, 2 * q + 1, k - 1)
                      ELSE DivBits(r2, mb, 2 * q, k - 1)

\* a / b for b # 0: 26 quotient bits by long division and a sticky bit.
F32Div(a, b) ==
  IF a[1] = 0 THEN <<0, 0>>
  ELSE LET ma == Abs(a[1])
           mb == Abs(b[1])
           qr == DivBits(ma % mb, mb, ma \div mb, 26)
           st == IF qr[2] # 0 /\ qr[1] % 2 = 0 THEN 1 ELSE 0
       IN F32Round(Sgn(a[1]) * Sgn(b[1]) * (qr[1] + st), a[2] - b[2] - 26)

F32IsZero(a) == a[1] = 0

F32Lt0(a) == a[1] < 0

\* `a as u8`: truncation toward zero, saturating at 0 and 255.
F32ToU8(a) ==
  IF a[1] <= 0 THEN 0
  ELSE IF a[2] >= 0 THEN 255
  ELSE IF -a[2] >= 24 THEN 0
  ELSE Min(255, a[1] \div 2^(-a[2]))

RECURSIVE SqrtBits(_, _, _, _)
\* Digit-by-digit square root: `rad` holds the radicand's remaining bits in
\* pairs, most significant first.
SqrtBits(root, rem, rad, k) ==
  IF k = 0 THEN <<root, rem>>
  ELSE LET pair == IF rad = <<>> THEN 0 ELSE Head(rad)
           rest == IF rad = <<>> THEN <<>> ELSE Tail(rad)
           r4   == rem * 4 + pair
           t    == root * 4 + 1
       IN IF r4 >= t THEN SqrtBits(root * 2 + 1, r4 - t, rest, k - 1)
                     ELSE SqrtBits(root * 2, r4, rest, k - 1)

RECURSIVE BitPairs(_, _)
\* The k base-4 digits of n, most significant first.
BitPairs(n, k) == IF k = 0 THEN <<>> ELSE Append(BitPairs(n \div 4, k - 1), n % 4)

\* a.sqrt() for a >= 0: 27 root bits and a sticky bit.
F32Sqrt(a) ==
  IF a[1] <= 0 THEN <<0, 0>>
  ELSE LET odd == a[2] % 2 # 0
           m   == IF odd THEN a[1] * 2 ELSE a[1]
           e   == IF odd THEN a[2] - 1 ELSE a[2]
           \* sqrt(m * 2^e) = sqrt(m * 2^28) * 2^((e - 28) \div 2), m below 2^26
           rr  == SqrtBits(0, 0, BitPairs(m, 13), 27)
           st  == IF rr[2] # 0 /\ rr[1] % 2 = 0 THEN 1 ELSE 0
       IN F32Round(rr[1] + st, (e - 28) \div 2)

\* ---------------------------------------------------------------- usize

\* Unsigned a >= b on residues: a negative residue is a value above every
\* non-negative one.
UsizeGe(a, b) == IF (a < 0) = (b < 0) THEN a >= b ELSE a < 0

\* Unsigned a < 0: never.
UsizeLt0(a) == FALSE

\* a - b leaves the unsigned range (the fault of a build with overflow checks).
SubOverflows(a, b) == ~UsizeGe(a, b)

\* ----------------------------------------------------------- the buffer

\* bitmap_data[k], k counted from 0 as in the source.
At(data, k) == data[k + 1]

\* The indices `index` takes in `while index < len { ...; index += 4 }`.
PixelStarts(data) == {k \in 0..(Len(data) - 1) : k % 4 = 0}

\* ColorComponent -> offset
ComponentOffset(component) ==
  CASE component = "Red"   -> 0
    [] component = "Green" -> 1
    [] component = "Blue"  -> 2
    [] component = "Alpha" -> 3

PointFuncReversedSubtract(func, color, value) ==
  CASE func = "add"      -> F32Add(color, value)
    [] func = "subtract" -> F32Sub(value, color)
    [] func = "multiply" -> F32Mul(color, value)
    [] func = "divide"   -> F32Div(color, value)

\* The selected f32 function: f32::add, f32::sub, f32::mul, f32::div.
PointFunc(func, color, value) ==
  CASE func = "add"      -> F32Add(color, value)
    [] func = "subtract" -> F32Sub(color, value)
    [] func = "multiply" -> F32Mul(color, value)
    [] func = "divide"   -> F32Div(color, value)

\* The calls func(color, value) that apply_point_fn makes.
PointFnCalls(data, component, value, func) ==
  IF F32IsZero(value) THEN {}
  ELSE {<<func, data[k], value>> :
          k \in {j \in 1..Len(data) : (j - 1) % 4 = ComponentOffset(component)}}

ApplyPointFnMissingGuard(data, component, value, func) ==
  [k \in 1..Len(data) |->
     IF (k - 1) % 4 = ComponentOffset(component)
     THEN IF func = "divide" /\ F32IsZero(value)
          THEN (IF data[k] = 0 THEN 0 ELSE 255)
          ELSE F32ToU8(PointFunc(func, F32FromInt(data[k]), value))
     ELSE data[k]]

ApplyPointFn(data, component, value, func) ==
  IF F32IsZero(value) THEN data
  ELSE [k \in 1..Len(data) |->
          IF (k - 1) % 4 = ComponentOffset(component)
          THEN F32ToU8(PointFunc(func, F32FromInt(data[k]), value))
          ELSE data[k]]

F32One == F32FromInt(1)

F32Two == F32FromInt(2)

F32Three == F32FromInt(3)

F32U8Max == F32FromInt(255)

BrightnessByte(byte, brightness) ==
  LET norm_val == F32Div(F32FromInt(byte), F32U8Max)
      new_val  == IF F32Lt0(brightness)
                  THEN F32Mul(norm_val, F32Add(F32One, brightness))
                  ELSE F32Add(norm_val, F32Mul(brightness, F32Sub(F32One, norm_val)))
  IN F32ToU8(F32Mul(new_val, F32U8Max))

ChangeBrightnessAllBytes(data, brightness) ==
  LET half == F32Div(brightness, F32Two)
  IN [k \in 1..Len(data) |-> BrightnessByte(data[k], half)]

ChangeBrightness(data, brightness) ==
  LET half == F32Div(brightness, F32Two)
  IN [k \in 1..Len(data) |->
        IF (k - 1) % 4 = 3 THEN data[k] ELSE BrightnessByte(data[k], half)]

\* The start of the pixel that holds byte k (1-based), 0-based.
PixelOf(k) == ((k - 1) \div 4) * 4

GrayAvg(red, green, blue) ==
  F32ToU8(F32Div(F32Add(F32Add(F32FromInt(red), F32FromInt(green)),
                        F32FromInt(blue)), F32Three))

ToGrayscaleAvg(data) ==
  [k \in 1..Len(data) |->
     IF (k - 1) % 4 = 3 THEN data[k]
     ELSE GrayAvg(At(data, PixelOf(k)), At(data, PixelOf(k) + 1),
                  At(data, PixelOf(k) + 2))]

\* The literals 0.2126, 0.7152, 0.0722 as f32.
LumaRed == F32Div(F32FromInt(2126), F32FromInt(10000))

LumaGreen == F32Div(F32FromInt(7152), F32FromInt(10000))

LumaBlue == F32Div(F32FromInt(722), F32FromInt(10000))

GrayWeighted(red, green, blue) ==
  F32ToU8(F32Add(F32Add(F32Mul(F32FromInt(red), LumaRed),
                        F32Mul(F32FromInt(green), LumaGreen)),
                 F32Mul(F32FromInt(blue), LumaBlue)))

ToGrayscaleAvgWeighted(data) ==
  [k \in 1..Len(data) |->
     IF (k - 1) % 4 = 3 THEN data[k]
     ELSE GrayWeighted(At(data, PixelOf(k)), At(data, PixelOf(k) + 1),
                       At(data, PixelOf(k) + 2))]

\* ------------------------------------------------- neighbourhood filters

\* let x = i % 3; let y = i / 3;
\* index + (x - 1) * 4 + (y - 1) * self.width as usize * 4, wrapping.
PixelIndex(index, i, w) == index + ((i % 3) - 1) * 4 + ((i \div 3) - 1) * w * 4

\* The same expression faults when overflow is checked: x - 1 or y - 1 below 0.
PixelIndexOverflows(index, i, w) ==
  SubOverflows(i % 3, 1) \/ SubOverflows(i \div 3, 1)

SkippedRowChecked(data, index, i, w) ==
  LET col == ((index \div 4) % w) + (i % 3) - 1
  IN \/ UsizeGe(PixelIndex(index, i, w), Len(data))
     \/ col < 0
     \/ col >= w

\* if pixel_index < 0 || pixel_index >= self.bitmap_data.len() { continue; }
Skipped(data, index, i, w) ==
  UsizeLt0(PixelIndex(index, i, w)) \/ UsizeGe(PixelIndex(index, i, w), Len(data))

\* A sample's byte, 0 when the sample is skipped (the accumulators start at 0).
Sample(data, index, i, w, off) ==
  IF Skipped(data, index, i, w) THEN 0 ELSE At(data, PixelIndex(index, i, w) + off)

\* for i in 0..9 { acc += term(i) }; t is the function i |-> term(i).
Sum9(t) == t[0] + t[1] + t[2] + t[3] + t[4] + t[5] + t[6] + t[7] + t[8]

FilterPassRgbOnly(data, channel) ==
  [k \in 1..((Len(data) \div 4) * 3) |->
     channel[((k - 1) \div 3) * 4, (k - 1) % 3]]

\* A neighbourhood pass: new_bitmap_data = clone; R, G, B of each pixel
\* rewritten to channel[index, off]; alpha kept.
FilterPass(data, channel) ==
  [k \in 1..Len(data) |->
     IF (k - 1) % 4 = 3 THEN data[k] ELSE channel[PixelOf(k), (k - 1) % 4]]

\* A read the pass makes outside the buffer (Vec indexing panics).
ReadsOutOfBounds(data, w) ==
  \E index \in PixelStarts(data), i \in 0..8 :
     /\ ~Skipped(data, index, i, w)
     /\ PixelIndex(index, i, w) + 2 >= Len(data)

\* An arithmetic fault of the pass in a build with overflow checks.
ArithmeticFault(data, w) ==
  \E index \in PixelStarts(data), i \in 0..8 : PixelIndexOverflows(index, i, w)

SmoothChannel(data, w, index, off) ==
  (Sum9([i \in 0..8 |-> Sample(data, index, i, w, off)]) \div 9) % 256

FilterSmooth(data, w) ==
  FilterPass(data, [index \in PixelStarts(data), off \in 0..2 |-> SmoothChannel(data, w, index, off)])

RECURSIVE InsertSorted(_, _)
InsertSorted(s, v) ==
  IF s = <<>> THEN <<v>>
  ELSE IF v <= Head(s) THEN <<v>> \o s
  ELSE <<Head(s)>> \o InsertSorted(Tail(s), v)

RECURSIVE Sort(_)
Sort(s) == IF s = <<>> THEN <<>> ELSE InsertSorted(Sort(Tail(s)), Head(s))

MedianChannelOmitSkipped(data, w, index, off) ==
  LET used == {i \in 0..8 : ~Skipped(data, index, i, w)}
      vals == Sort([j \in 1..9 |->
                      IF (j - 1) \in used
                      THEN At(data, PixelIndex(index, j - 1, w) + off) ELSE 256])
  IN vals[(Cardinality(used) \div 2) + 1] % 256

\* red = [0; 9]; red[i] = sample; red.sort(); red[4]
MedianChannel(data, w, index, off) ==
  Sort([j \in 1..9 |-> Sample(data, index, j - 1, w, off)])[5] % 256

FilterMedian(data, w) ==
  FilterPass(data, [index \in PixelStarts(data), off \in 0..2 |-> MedianChannel(data, w, index, off)])

SobelXWeightUnshifted(i) == i % 3

\* x_weight by column, y_weight by row: -1, 0, 1.
SobelXWeight(i) == (i % 3) - 1

SobelYWeight(i) == (i \div 3) - 1

\* The magnitude narrowed by a cast that keeps the low eight bits.
SobelChannelWrapping(data, w, index, off) ==
  LET gx == Sum9([i \in 0..8 |-> Sample(data, index, i, w, off) * SobelXWeight(i)])
      gy == Sum9([i \in 0..8 |-> Sample(data, index, i, w, off) * SobelYWeight(i)])
      m  == F32Sqrt(F32FromInt(gx * gx + gy * gy))
  IN IF m[1] <= 0 \/ m[2] >= 0 \/ -m[2] >= 24 THEN 0
     ELSE (m[1] \div 2^(-m[2])) % 256

\* ((x * x + y * y) as f32).sqrt() as u8, the sums in i32.
SobelChannel(data, w, index, off) ==
  LET gx == Sum9([i \in 0..8 |-> Sample(data, index, i, w, off) * SobelXWeight(i)])
      gy == Sum9([i \in 0..8 |-> Sample(data, index, i, w, off) * SobelYWeight(i)])
  IN F32ToU8(F32Sqrt(F32FromInt(gx * gx + gy * gy)))

FilterSobel(data, w) ==
  FilterPass(data, [index \in PixelStarts(data), off \in 0..2 |-> SobelChannel(data, w, index, off)])

HighpassCentre == F32Div(F32FromInt(8), F32FromInt(9))

HighpassOther == F32Div(F32FromInt(-1), F32FromInt(9))

HighpassWeightUnitCentre(i) == IF i = 4 THEN F32One ELSE HighpassOther

\* 8.0 / 9.0 at (1, 1), -1.0 / 9.0 elsewhere
HighpassWeight(i) == IF i = 4 THEN HighpassCentre ELSE HighpassOther

RECURSIVE HighpassAcc(_, _, _, _, _)
\* The accumulator after samples 0..i, added in that order.
HighpassAcc(data, w, index, off, i) ==
  LET acc == IF i = 0 THEN <<0, 0>> ELSE HighpassAcc(data, w, index, off, i - 1)
  IN IF Skipped(data, index, i, w) THEN acc
     ELSE F32Add(acc, F32Mul(F32FromInt(At(data, PixelIndex(index, i, w) + off)),
                             HighpassWeight(i)))

\* highpass_data[index + off]
HighpassChannel(data, w, index, off) == F32ToU8(HighpassAcc(data, w, index, off, 8))

\* u8::saturating_add
SaturatingAdd(a, b) == Min(255, a + b)

FilterHighpassSharpen(data, w) ==
  FilterPass(data, [index \in PixelStarts(data), off \in 0..2 |->
     SaturatingAdd(At(data, index + off), HighpassChannel(data, w, index, off))])

GaussianWeight(i) ==
  CASE i \in {0, 2, 6, 8} -> 1
    [] i \in {1, 3, 5, 7} -> 2
    [] i = 4              -> 4

GaussianDivideByNine(data, w, index, off) ==
  (Sum9([i \in 0..8 |-> Sample(data, index, i, w, off) * GaussianWeight(i)]) \div 9) % 256

GaussianChannel(data, w, index, off) ==
  (Sum9([i \in 0..8 |-> Sample(data, index, i, w, off) * GaussianWeight(i)]) \div 16) % 256

FilterGaussianBlur(data, w) ==
  FilterPass(data, [index \in PixelStarts(data), off \in 0..2 |-> GaussianChannel(data, w, index, off)])

\* ------------------------------------------------------------ the inputs

MaxSide == 3

MaxOps == 2

\* Pixels of the uniform images: R, G, B, A.
ColourA == <<250, 100, 7, 255>>

ColourB == <<60, 200, 128, 77>>

UniformImage(w, h, p) ==
  [data |-> [k \in 1..(w * h * 4) |-> p[((k - 1) % 4) + 1]],
   width |-> w, height |-> h]

\* An image whose pixels all differ.
PatternImage(w, h) ==
  [data |-> [k \in 1..(w * h * 4) |->
               LET j == (k - 1) \div 4
               IN CASE (k - 1) % 4 = 0 -> (j * 37 + 11) % 256
                    [] (k - 1) % 4 = 1 -> (j * 91 + 200) % 256
                    [] (k - 1) % 4 = 2 -> (255 - j * 17) % 256
                    [] (k - 1) % 4 = 3 -> (j * 50 + 5) % 256],
   width |-> w, height |-> h]

\* What decode_data can return, the RGBA8 raster with its dimensions: square
\* images up to MaxSide, uniform and patterned, and two that are not square.
Images ==
  {UniformImage(n, n, IF n % 2 = 1 THEN ColourA ELSE ColourB) : n \in 1..MaxSide}
  \cup {PatternImage(n, n) : n \in 1..MaxSide}
  \cup {PatternImage(2, 3), UniformImage(3, 2, ColourB)}

\* A colour dim enough for a ninth of it to vanish in a cast.
ColourDim == <<1, 1, 1, 255>>

\* The rasters the neighbourhood filters are followed on: Images and two
\* uniform images of the dim colour, one of them a single row.
FilterImages ==
  Images \cup {UniformImage(3, 3, ColourDim), UniformImage(3, 1, ColourDim)}

\* The rasters sequences of all the operations are followed on: a patterned row
\* of two pixels and a uniform column of two.
Thumbnails == {PatternImage(2, 1), UniformImage(1, 2, ColourB)}

\* A file decode_data rejects.
Undecodable == [data |-> <<>>, width |-> 0, height |-> 0]

\* The files the user can pick, each told by what decode_data makes of it.
Files == Images \cup {Undecodable}

\* The number typed into the operand field, which holds 0 until then: 10.
InputValues == {F32FromInt(10)}

\* Operands of the round trip: 0, 10, 1/2, 7/4, -3, 300, -300.
RoundTripValues ==
  {F32FromInt(0), F32FromInt(10), F32Div(F32One, F32Two),
   F32Div(F32FromInt(7), F32FromInt(4)), F32FromInt(-3),
   F32FromInt(300), F32FromInt(-300)}

\* Positions of the brightness slider: -1, 0.3.
BrightnessValues == {F32FromInt(-1), F32Div(F32FromInt(3), F32FromInt(10))}

Components == {"Red", "Green", "Blue", "Alpha"}

Funcs == {"add", "subtract", "multiply", "divide"}

\* ------------------------------------------------------------- the state

VARIABLES
  bitmap_data,       \* Image.bitmap_data
  width,             \* Image.width
  height,            \* Image.height
  input_value,       \* Image.input_value
  brigthness_scale,  \* Image.brigthness_scale
  overflow_checks,   \* whether the build checks integer overflow
  panicked,          \* "none", or the panic that ended the program
  loaded,            \* history: the image as decoded at the last load
  prev,              \* history: bitmap_data before the last load or operation
  history,           \* history: the loads and operations since construction
  image_data,        \* App.image_data: <<>> for None, <<file>> for Some(file)
  is_loading,        \* App.is_loading
  reads              \* the files being read whose "load" event is still to come

vars == <<bitmap_data, width, height, input_value, brigthness_scale,
          overflow_checks, panicked, loaded, prev, history,
          image_data, is_loading, reads>>

Op(name, component, func, value) ==
  [op |-> name, component |-> component, func |-> func, value |-> value]

NoValue == <<0, 0>>

\* Image::new_with_data
Init ==
  /\ \E img \in Thumbnails :
       /\ bitmap_data = img.data
       /\ width = img.width
       /\ height = img.height
       /\ loaded = img
       /\ prev = img.data
       /\ image_data = <<img>>
  /\ is_loading = FALSE
  /\ reads = <<>>
  /\ input_value = F32FromInt(0)
  /\ brigthness_scale = F32FromInt(0)
  /\ overflow_checks \in BOOLEAN
  /\ panicked = "none"
  /\ history = <<>>

Running == panicked = "none"

\* The model follows the program for MaxOps loads and operations.
Budget == Len(history) < MaxOps

\* The buffer becomes `data` by operation `op`.
Mutate(data, op) ==
  /\ prev' = bitmap_data
  /\ bitmap_data' = data
  /\ history' = Append(history, op)
  /\ UNCHANGED <<width, height, overflow_checks, panicked, loaded>>
  /\ UNCHANGED <<image_data, is_loading, reads>>

\* The operation panics: the buffer is as it was.
Panic(kind, op) ==
  /\ panicked' = kind
  /\ prev' = bitmap_data
  /\ history' = Append(history, op)
  /\ UNCHANGED <<bitmap_data, width, height, overflow_checks, loaded>>
  /\ UNCHANGED <<image_data, is_loading, reads>>

\* Component::changed -> Image::update, the decoder returning img
Changed(img) ==
  /\ Running
  /\ image_data' = <<img>>
  /\ UNCHANGED <<is_loading, reads>>
  /\ bitmap_data' = img.data
  /\ width' = img.width
  /\ height' = img.height
  /\ loaded' = img
  /\ prev' = bitmap_data
  /\ history' = Append(history, Op("update", "-", "-", NoValue))
  /\ UNCHANGED <<input_value, brigthness_scale, overflow_checks, panicked>>

\* Component::changed -> Image::update, decode_data failing (expect)
ChangedUndecodable ==
  /\ Running
  /\ panicked' = "decode"
  /\ prev' = bitmap_data
  /\ history' = Append(history, Op("update", "-", "-", NoValue))
  /\ image_data' = <<Undecodable>>
  /\ UNCHANGED <<bitmap_data, width, height, overflow_checks, loaded>>
  /\ UNCHANGED <<input_value, brigthness_scale, is_loading, reads>>

\* Msg::ValueChanged
ValueChanged(v) ==
  /\ Running
  /\ input_value' = v
  /\ UNCHANGED <<bitmap_data, width, height, brigthness_scale, overflow_checks,
                 panicked, loaded, prev, history, image_data, is_loading, reads>>

\* Msg::ApplyOperation with the two selects at color and func
ApplyOperation(color, func) ==
  /\ Running
  /\ Mutate(ApplyPointFn(bitmap_data, color, input_value, func),
            Op("apply_point_fn", color, func, input_value))
  /\ UNCHANGED <<input_value, brigthness_scale>>

\* Msg::BrightnessChanged
BrightnessChanged(v) ==
  /\ Running
  /\ brigthness_scale' = v
  /\ Mutate(ChangeBrightness(bitmap_data, v), Op("change_brightness", "-", "-", v))
  /\ UNCHANGED input_value

\* Msg::ToGrayscaleAvg
ToGrayscaleAvgMsg ==
  /\ Running
  /\ Mutate(ToGrayscaleAvg(bitmap_data), Op("to_grayscale_avg", "-", "-", NoValue))
  /\ UNCHANGED <<input_value, brigthness_scale>>

\* Msg::ToGrayscaleAvgWeighted
ToGrayscaleAvgWeightedMsg ==
  /\ Running
  /\ Mutate(ToGrayscaleAvgWeighted(bitmap_data),
            Op("to_grayscale_avg_weighted", "-", "-", NoValue))
  /\ UNCHANGED <<input_value, brigthness_scale>>

\* How a neighbourhood pass over the buffer ends in this build.
PassOutcome ==
  IF overflow_checks /\ ArithmeticFault(bitmap_data, width) THEN "overflow"
  ELSE IF ReadsOutOfBounds(bitmap_data, width) THEN "bounds"
  ELSE "none"

\* Msg::FilterSmooth
FilterSmoothMsg ==
  /\ Running
  /\ IF PassOutcome = "none"
     THEN Mutate(FilterSmooth(bitmap_data, width), Op("filter_smooth", "-", "-", NoValue))
     ELSE Panic(PassOutcome, Op("filter_smooth", "-", "-", NoValue))
  /\ UNCHANGED <<input_value, brigthness_scale>>

\* Msg::FilterMedian
FilterMedianMsg ==
  /\ Running
  /\ IF PassOutcome = "none"
     THEN Mutate(FilterMedian(bitmap_data, width), Op("filter_median", "-", "-", NoValue))
     ELSE Panic(PassOutcome, Op("filter_median", "-", "-", NoValue))
  /\ UNCHANGED <<input_value, brigthness_scale>>

\* Msg::FilterEdgeDetection
FilterEdgeDetectionMsg ==
  /\ Running
  /\ IF PassOutcome = "none"
     THEN Mutate(FilterSobel(bitmap_data, width), Op("filter_sobel", "-", "-", NoValue))
     ELSE Panic(PassOutcome, Op("filter_sobel", "-", "-", NoValue))
  /\ UNCHANGED <<input_value, brigthness_scale>>

\* Msg::FilterSharpen
FilterSharpenMsg ==
  /\ Running
  /\ IF PassOutcome = "none"
     THEN Mutate(FilterHighpassSharpen(bitmap_data, width),
                 Op("filter_highpass_sharpen", "-", "-", NoValue))
     ELSE Panic(PassOutcome, Op("filter_highpass_sharpen", "-", "-", NoValue))
  /\ UNCHANGED <<input_value, brigthness_scale>>

\* Msg::FilterGaussianBlur
FilterGaussianBlurMsg ==
  /\ Running
  /\ IF PassOutcome = "none"
     THEN Mutate(FilterGaussianBlur(bitmap_data, width),
                 Op("filter_gaussian_blur", "-", "-", NoValue))
     ELSE Panic(PassOutcome, Op("filter_gaussian_blur", "-", "-", NoValue))
  /\ UNCHANGED <<input_value, brigthness_scale>>

Next ==
  \/ Budget /\ \E img \in Thumbnails : Changed(img)
  \/ Budget /\ ChangedUndecodable
  \/ \E v \in InputValues : ValueChanged(v)
  \/ Budget /\ \E color \in Components, func \in Funcs : ApplyOperation(color, func)
  \/ Budget /\ \E v \in BrightnessValues : BrightnessChanged(v)
  \/ Budget /\ ToGrayscaleAvgMsg
  \/ Budget /\ ToGrayscaleAvgWeightedMsg
  \/ Budget /\ FilterSmoothMsg
  \/ Budget /\ FilterMedianMsg
  \/ Budget /\ FilterEdgeDetectionMsg
  \/ Budget /\ FilterSharpenMsg
  \/ Budget /\ FilterGaussianBlurMsg

Spec == Init /\ [][Next]_vars

\* The round trip of point operations: an image is loaded with a number in the
\* operand field, Red is added to and then subtracted from.
InitRoundTrip ==
  /\ \E img \in Images :
       /\ bitmap_data = img.data
       /\ width = img.width
       /\ height = img.height
       /\ loaded = img
       /\ prev = img.data
       /\ image_data = <<img>>
  /\ is_loading = FALSE
  /\ reads = <<>>
  /\ input_value \in RoundTripValues
  /\ brigthness_scale = F32FromInt(0)
  /\ overflow_checks \in BOOLEAN
  /\ panicked = "none"
  /\ history = <<>>

NextRoundTrip ==
  \/ history = <<>> /\ ApplyOperation("Red", "add")
  \/ Len(history) = 1 /\ ApplyOperation("Red", "subtract")

SpecRoundTrip == InitRoundTrip /\ [][NextRoundTrip]_vars

\* The neighbourhood filters, one after another, on the larger rasters.
InitFilters ==
  /\ \E img \in FilterImages :
       /\ bitmap_data = img.data
       /\ width = img.width
       /\ height = img.height
       /\ loaded = img
       /\ prev = img.data
       /\ image_data = <<img>>
  /\ is_loading = FALSE
  /\ reads = <<>>
  /\ input_value = F32FromInt(0)
  /\ brigthness_scale = F32FromInt(0)
  /\ overflow_checks \in BOOLEAN
  /\ panicked = "none"
  /\ history = <<>>

NextFilters ==
  \/ Budget /\ FilterSmoothMsg
  \/ Budget /\ FilterMedianMsg
  \/ Budget /\ FilterEdgeDetectionMsg
  \/ Budget /\ FilterSharpenMsg
  \/ Budget /\ FilterGaussianBlurMsg

SpecFilters == InitFilters /\ [][NextFilters]_vars

\* ------------------------------------------------- the file-load event loop

\* File reads followed at one time.
MaxReads == 2

\* The Image component's variables and the history of its operations.
imagevars == <<bitmap_data, width, height, input_value, brigthness_scale,
               overflow_checks, loaded, prev, history>>

\* App::create: no file yet, so no Image component: its buffer is empty.
InitApp ==
  /\ image_data = <<>>
  /\ is_loading = FALSE
  /\ reads = <<>>
  /\ bitmap_data = <<>>
  /\ width = 0
  /\ height = 0
  /\ loaded = Undecodable
  /\ prev = <<>>
  /\ history = <<>>
  /\ input_value = F32FromInt(0)
  /\ brigthness_scale = F32FromInt(0)
  /\ overflow_checks \in BOOLEAN
  /\ panicked = "none"

\* Msg::FileUpload, the input holding file f: a FileReader starts reading it
\* and its "load" listener is left in place.
FileUpload(f) ==
  /\ Running
  /\ Len(reads) < MaxReads
  /\ is_loading' = TRUE
  /\ reads' = Append(reads, f)
  /\ UNCHANGED <<image_data, panicked>>
  /\ UNCHANGED imagevars

\* Msg::FileUpload, the input holding no file: files().get(0).unwrap() panics
\* after is_loading was set.
FileUploadNoFile ==
  /\ Running
  /\ is_loading' = TRUE
  /\ panicked' = "unwrap"
  /\ UNCHANGED <<image_data, reads>>
  /\ UNCHANGED imagevars

\* The view after Msg::FileLoaded: the Image component is created with the
\* file (Image::create) or told of it (Image::changed), and decodes it.
Shown(f) ==
  IF f = Undecodable
    THEN /\ panicked' = "decode"
         /\ UNCHANGED imagevars
    ELSE /\ bitmap_data' = f.data
         /\ width' = f.width
         /\ height' = f.height
         /\ loaded' = f
         /\ prev' = f.data
         /\ UNCHANGED <<input_value, brigthness_scale, overflow_checks,
                        panicked, history>>

\* The "load" event of the k-th read still pending, reads completing in any
\* order: file_cb.emit, then Msg::FileLoaded.
FileLoaded(k) ==
  /\ Running
  /\ k \in 1..Len(reads)
  /\ is_loading' = FALSE
  /\ image_data' = <<reads[k]>>
  /\ reads' = SubSeq(reads, 1, k - 1) \o SubSeq(reads, k + 1, Len(reads))
  /\ Shown(reads[k])

NextApp ==
  \/ \E f \in Files : FileUpload(f)
  \/ FileUploadNoFile
  \/ \E k \in 1..MaxReads : FileLoaded(k)

SpecApp == InitApp /\ [][NextApp]_vars

\* ------------------------------------------------------------ properties

LastOp == history[Len(history)]

\* The last load or operation was `name`.
Did(name) == history # <<>> /\ LastOp.op = name

\* ... and it returned.
Returned(name) == Did(name) /\ panicked = "none"

\* Every pixel of the buffer equals its first pixel.
IsUniform(data) == \A k \in 1..Len(data) : data[k] = data[((k - 1) % 4) + 1]

\* idx + dx*4 + dy*width*4 in the integers, (dx, dy) the i-th offset of the
\* 3x3 neighbourhood counted row by row.
SampleIndex(index, i, w) == index + ((i % 3) - 1) * 4 + ((i \div 3) - 1) * w * 4

InBuffer(data, t) == 0 <= t /\ t < Len(data)

\* All nine samples of the pixel at `index` have an in-range linear index.
Interior(data, w, index) ==
  \A i \in 0..8 : InBuffer(data, SampleIndex(index, i, w))

InRangeCount(data, w, index) ==
  Cardinality({i \in 0..8 : InBuffer(data, SampleIndex(index, i, w))})

SamePixel(a, b, index) == \A off \in 0..3 : At(a, index + off) = At(b, index + off)

AlphaKept(a, b) ==
  /\ Len(a) = Len(b)
  /\ \A index \in PixelStarts(a) : At(a, index + 3) = At(b, index + 3)

\* C1: after a load and after every operation, the buffer holds
\* width * height * 4 bytes and the dimensions are those of the last load.
C1_DimensionInvariant ==
  /\ Len(bitmap_data) = width * height * 4
  /\ width = loaded.width
  /\ height = loaded.height

\* A filter has rewritten the buffer of an image that is not square and was
\* loaded over the first one.
C1_Witness ==
  /\ Len(history) = 2
  /\ history[1].op = "update"
  /\ Returned("filter_smooth")
  /\ bitmap_data # prev
  /\ width # height

\* C2: no neighbourhood filter ends in a panic, neither by an arithmetic fault
\* in the sample index nor by a read outside the buffer.
C2_FiltersNeverPanic == panicked \notin {"overflow", "bounds"}

\* C3: apply_point_fn with operand 0.0 leaves every byte and the dimensions as
\* they were, whatever the channel and the operation, and calls no function,
\* so never divides by 0.
C3_ZeroOperandIdentity ==
  (Did("apply_point_fn") /\ F32IsZero(LastOp.value)) =>
     /\ panicked = "none"
     /\ bitmap_data = prev
     /\ width = loaded.width
     /\ height = loaded.height
     /\ PointFnCalls(prev, LastOp.component, LastOp.value, LastOp.func) = {}

C3_Witness ==
  /\ Did("apply_point_fn")
  /\ F32IsZero(LastOp.value)
  /\ LastOp.func = "divide"
  /\ LastOp.component = "Alpha"

\* C4 as claimed: smooth and Gaussian blur return a uniform buffer unchanged,
\* first and last rows included.
C4_UniformBlurIdentity ==
  ((Returned("filter_smooth") \/ Returned("filter_gaussian_blur")) /\ IsUniform(prev))
     => bitmap_data = prev

\* C4 as amended: on a uniform buffer smooth and Gaussian blur leave unchanged
\* every pixel all nine of whose samples have an in-range index, and every
\* alpha byte.
C4_UniformBlurInterior ==
  ((Did("filter_smooth") \/ Did("filter_gaussian_blur")) /\ IsUniform(prev)) =>
     /\ AlphaKept(bitmap_data, prev)
     /\ \A index \in PixelStarts(prev) :
          Interior(prev, width, index) => SamePixel(bitmap_data, prev, index)

C4_Witness ==
  /\ Returned("filter_gaussian_blur")
  /\ IsUniform(prev)
  /\ \E index \in PixelStarts(prev) : Interior(prev, width, index)
  /\ \E index \in PixelStarts(prev) : ~SamePixel(bitmap_data, prev, index)

\* C5 as claimed: Sobel turns R, G, B of every pixel of a uniform buffer to 0
\* and keeps alpha.
C5_UniformSobelZero ==
  (Returned("filter_sobel") /\ IsUniform(prev)) =>
     /\ AlphaKept(bitmap_data, prev)
     /\ \A index \in PixelStarts(prev) :
          \A off \in 0..2 : At(bitmap_data, index + off) = 0

\* C5 as amended: when Sobel returns on a uniform buffer, R, G, B are 0 at
\* every pixel all nine of whose samples have an in-range index, and alpha is
\* kept everywhere.
C5_UniformSobelInterior ==
  (Returned("filter_sobel") /\ IsUniform(prev)) =>
     /\ AlphaKept(bitmap_data, prev)
     /\ \A index \in PixelStarts(prev) :
          Interior(prev, width, index) =>
             \A off \in 0..2 : At(bitmap_data, index + off) = 0

C5_Witness ==
  /\ Returned("filter_sobel")
  /\ IsUniform(prev)
  /\ \E index \in PixelStarts(prev) :
       /\ Interior(prev, width, index)
       /\ At(prev, index) > 0
       /\ At(bitmap_data, index) = 0
  /\ \E index \in PixelStarts(prev) : At(bitmap_data, index) > 0

\* C6 as claimed: high-pass sharpen returns a uniform buffer unchanged, the
\* high-pass value being 0 for R, G, B of every pixel.
C6_UniformSharpenNoOp ==
  (Returned("filter_highpass_sharpen") /\ IsUniform(prev)) =>
     /\ bitmap_data = prev
     /\ \A index \in PixelStarts(prev) :
          \A off \in 0..2 : HighpassChannel(prev, width, index, off) = 0

\* C6 as amended: on a uniform buffer the high-pass value is 0 for R, G, B of
\* every pixel all nine of whose samples have an in-range index, and sharpen
\* leaves those pixels and every alpha byte unchanged.
C6_UniformSharpenInterior ==
  (Did("filter_highpass_sharpen") /\ IsUniform(prev)) =>
     /\ AlphaKept(bitmap_data, prev)
     /\ \A index \in PixelStarts(prev) :
          Interior(prev, width, index) =>
             /\ SamePixel(bitmap_data, prev, index)
             /\ \A off \in 0..2 : HighpassChannel(prev, width, index, off) = 0

C6_Witness ==
  /\ Returned("filter_highpass_sharpen")
  /\ IsUniform(prev)
  /\ \E index \in PixelStarts(prev) : Interior(prev, width, index)
  /\ \E index \in PixelStarts(prev) :
       At(bitmap_data, index + 1) > At(prev, index + 1)

F32Lt(a, b) == F32Lt0(F32Sub(a, b))

\* Adding the operand to the byte does not saturate the cast: -1 < c + v < 256.
Unsaturated(c, v) ==
  LET sum == F32Add(F32FromInt(c), v)
  IN F32Lt(F32FromInt(-1), sum) /\ F32Lt(sum, F32FromInt(256))

RoundTripDone ==
  /\ Len(history) = 2
  /\ history[1] = Op("apply_point_fn", "Red", "add", input_value)
  /\ history[2] = Op("apply_point_fn", "Red", "subtract", input_value)

OthersKept(a, b) ==
  /\ Len(a) = Len(b)
  /\ \A index \in PixelStarts(a) :
       \A off \in 1..3 : At(a, index + off) = At(b, index + off)

\* C7 as claimed: Add then Subtract of one operand on Red leaves every Red byte
\* within 1 of its original value and Green, Blue, Alpha unchanged.
C7_RoundTripWithinOne ==
  RoundTripDone =>
     /\ OthersKept(bitmap_data, loaded.data)
     /\ \A index \in PixelStarts(loaded.data) :
          Abs(At(bitmap_data, index) - At(loaded.data, index)) <= 1

\* C7 as amended: Add then Subtract of one operand on Red leaves within 1 of
\* its original value every Red byte c that the Add does not saturate
\* (-1 < c + operand < 256), and Green, Blue, Alpha unchanged.
C7_RoundTripUnsaturated ==
  RoundTripDone =>
     /\ OthersKept(bitmap_data, loaded.data)
     /\ \A index \in PixelStarts(loaded.data) :
          Unsaturated(At(loaded.data, index), input_value) =>
             Abs(At(bitmap_data, index) - At(loaded.data, index)) <= 1

C7_Witness ==
  /\ RoundTripDone
  /\ \E index \in PixelStarts(loaded.data) :
       /\ Unsaturated(At(loaded.data, index), input_value)
       /\ At(bitmap_data, index) = At(loaded.data, index) - 1

\* The middle of nine values, n of them v and the others 0.
ZeroPaddedMedian(v, n) == IF n >= 5 THEN v ELSE 0

\* C8: when the median filter returns on a uniform buffer, every pixel all
\* nine of whose samples have an in-range index is unchanged, and R, G, B of
\* every other pixel are the median of its in-range samples padded with zeros
\* to nine; alpha is kept.
C8_UniformMedian ==
  (Returned("filter_median") /\ IsUniform(prev)) =>
     /\ AlphaKept(bitmap_data, prev)
     /\ \A index \in PixelStarts(prev) :
          IF Interior(prev, width, index)
          THEN SamePixel(bitmap_data, prev, index)
          ELSE \A off \in 0..2 :
                  At(bitmap_data, index + off) =
                     ZeroPaddedMedian(At(prev, index + off),
                                      InRangeCount(prev, width, index))

C8_Witness ==
  /\ Returned("filter_median")
  /\ IsUniform(prev)
  /\ \E index \in PixelStarts(prev) :
       Interior(prev, width, index) /\ At(prev, index) > 0
  /\ \E index \in PixelStarts(prev) :
       ~Interior(prev, width, index) /\ At(bitmap_data, index) = At(prev, index)

\* The loads that replaced the buffer: a load that panics in the decoder
\* replaces nothing.
Loads ==
  {j \in 1..Len(history) :
     /\ history[j].op = "update"
     /\ ~(j = Len(history) /\ panicked = "decode")}

\* The operations since the last load.
SinceLoad == {i \in 1..Len(history) : \A j \in Loads : j < i}

\* C9: as long as no point operation was applied to the Alpha channel since
\* the load, every alpha byte is as loaded.
C9_AlphaPreserved ==
  (\A i \in SinceLoad :
      ~(history[i].op = "apply_point_fn" /\ history[i].component = "Alpha"))
     => AlphaKept(bitmap_data, loaded.data)

\* A point operation on Red and then a change of brightness have both
\* rewritten a buffer whose alpha bytes are neither 0 nor 255.
C9_Witness ==
  /\ Len(history) = 2
  /\ history[1].op = "apply_point_fn"
  /\ history[1].component = "Red"
  /\ prev # loaded.data
  /\ Returned("change_brightness")
  /\ \A index \in PixelStarts(prev) : At(bitmap_data, index) # At(prev, index)
  /\ \E index \in PixelStarts(prev) : At(prev, index + 3) \notin {0, 255}

\* The first byte of the pixel in column c of row r.
PixelAt(r, c, w) == (r * w + c) * 4

\* The sum over the in-range samples of the byte times weight[i].
InRangeSum(data, w, index, off, weight) ==
  Sum9([i \in 0..8 |-> IF InBuffer(data, SampleIndex(index, i, w))
                  THEN At(data, SampleIndex(index, i, w) + off) * weight[i]
                  ELSE 0])

\* C10: a sample is skipped exactly when idx + dx*4 + dy*width*4 is outside
\* 0 .. len - 1, so the passes that return compute their sums over the
\* in-range samples, rows not told apart: right of the last pixel of a row is
\* the first pixel of the next row, left of the first pixel of a row is the
\* last pixel of the row before.
C10_BoundaryPolicy ==
  /\ \A index \in PixelStarts(bitmap_data) : \A i \in 0..8 :
       /\ Skipped(bitmap_data, index, i, width)
            <=> ~InBuffer(bitmap_data, SampleIndex(index, i, width))
       /\ ~Skipped(bitmap_data, index, i, width)
            => PixelIndex(index, i, width) = SampleIndex(index, i, width)
  /\ \A r \in 0..(height - 2) :
       /\ ~Skipped(bitmap_data, PixelAt(r, width - 1, width), 5, width)
       /\ PixelIndex(PixelAt(r, width - 1, width), 5, width) = PixelAt(r + 1, 0, width)
       /\ ~Skipped(bitmap_data, PixelAt(r + 1, 0, width), 3, width)
       /\ PixelIndex(PixelAt(r + 1, 0, width), 3, width) = PixelAt(r, width - 1, width)
  /\ Returned("filter_smooth") =>
       \A index \in PixelStarts(prev) : \A off \in 0..2 :
          At(bitmap_data, index + off) = InRangeSum(prev, width, index, off, [i \in 0..8 |-> 1]) \div 9
  /\ Returned("filter_gaussian_blur") =>
       \A index \in PixelStarts(prev) : \A off \in 0..2 :
          At(bitmap_data, index + off) =
             InRangeSum(prev, width, index, off, [i \in 0..8 |-> GaussianWeight(i)]) \div 16

C10_Witness ==
  /\ Returned("filter_smooth")
  /\ width >= 2
  /\ height >= 2
  /\ ~IsUniform(prev)
  /\ \E index \in PixelStarts(prev) : \E i \in 0..8 :
       /\ ~Skipped(prev, index, i, width)
       /\ ((index \div 4) % width) + (i % 3) - 1 \notin 0..(width - 1)

\* The largest r in lo..hi with r * r <= n.
RECURSIVE FloorSqrt(_, _, _)
FloorSqrt(n, lo, hi) ==
  IF lo = hi THEN lo
  ELSE LET mid == (lo + hi + 1) \div 2
       IN IF mid * mid <= n THEN FloorSqrt(n, mid, hi) ELSE FloorSqrt(n, lo, mid - 1)

\* gx^2 + gy^2 of the pixel at `index`, the sums over the in-range samples:
\* at most 2 * (3 * 255)^2.
SquaredGradient(data, w, index, off) ==
  LET gx == InRangeSum(data, w, index, off, [i \in 0..8 |-> (i % 3) - 1])
      gy == InRangeSum(data, w, index, off, [i \in 0..8 |-> (i \div 3) - 1])
  IN gx * gx + gy * gy

\* The whole part of sqrt(gx^2 + gy^2).
Magnitude(data, w, index, off) ==
  FloorSqrt(SquaredGradient(data, w, index, off), 0, 2 * 3 * 255)

\* C11 as claimed: when Sobel returns, R, G, B of every pixel are the whole
\* part of sqrt(gx^2 + gy^2) narrowed without clamping: a magnitude above 255
\* is stored truncated to its low eight bits.
C11_SobelTruncated ==
  Returned("filter_sobel") =>
     \A index \in PixelStarts(prev) : \A off \in 0..2 :
        At(bitmap_data, index + off) = Magnitude(prev, width, index, off) % 256

\* C11 as amended: when Sobel returns, R, G, B of every pixel are the whole
\* part of sqrt(gx^2 + gy^2), the fraction dropped, and a magnitude above 255
\* is stored as 255.
C11_SobelSaturated ==
  Returned("filter_sobel") =>
     \A index \in PixelStarts(prev) : \A off \in 0..2 :
        At(bitmap_data, index + off) =
           Min(255, Magnitude(prev, width, index, off))

C11_Witness ==
  /\ Returned("filter_sobel")
  /\ \E index \in PixelStarts(prev) : \E off \in 0..2 :
       /\ Magnitude(prev, width, index, off) > 255
       /\ Magnitude(prev, width, index, off) % 256 # 255
       /\ At(bitmap_data, index + off) = 255
  /\ \E index \in PixelStarts(prev) : \E off \in 0..2 :
       LET m == Magnitude(prev, width, index, off)
       IN /\ 0 < m
          /\ m < 255
          /\ m * m < SquaredGradient(prev, width, index, off)
          /\ At(bitmap_data, index + off) = m

\* C12: while the program runs, is_loading is true exactly when a file read
\* started by a FileUpload has not yet delivered its FileLoaded; with two
\* reads in flight the first FileLoaded leaves is_loading true.
C12_LoadingWhilePending == Running => (is_loading <=> reads # <<>>)

====
